---- MODULE Spec2Model ----
(***************************************************************************)
(* State-machine model of src/mcp-server.js (swift-impact-analyzer 3.0.0): *)
(* the module-level state astData / repoPath, the six registered tools,    *)
(* and the graph construction done by init_swift_repo.                     *)
(*                                                                         *)
(* Encoding of JavaScript values                                           *)
(*   - a path is a sequence of components: "/A/s1.swift" is                *)
(*     <<"A", "s1.swift">>; path.join is concatenation;                    *)
(*   - null and undefined are the reserved one-element sequences JsNull    *)
(*     and Undefined (no path component of the model carries these names); *)
(*   - an object with insertion-ordered keys (files) is a sequence of      *)
(*     entries; an object used as a map (typeMap, byName, byKind, byFile)  *)
(*     is a function whose DOMAIN is its set of own keys;                  *)
(*   - astData is a record; `has` is the set of top-level keys the object  *)
(*     carries, isNull says the variable holds null.                       *)
(***************************************************************************)
EXTENDS Integers, Sequences, FiniteSets, TLC

VARIABLES
    astData,    \* module state, line 57
    repoPath,   \* module state, line 58
    calls,      \* in-flight init_swift_repo invocations (their locals and await point)
    disk,       \* app.json documents written so far, by output path
    inits,      \* number of init_swift_repo invocations so far
    last        \* the most recent tool step and what it returned to the caller

vars == <<astData, repoPath, calls, disk, inits, last>>

----------------------------------------------------------------------------
(* Bounds of the model *)

MaxNodes == 3       \* kind+name nodes in the Swift units of one build, in total
MaxInits == 2       \* init_swift_repo invocations started in one behaviour

----------------------------------------------------------------------------
(* JavaScript values *)

JsNull == <<"null">>
Undefined == <<"undefined">>

\* an absent string-valued property (key.typename of a node that has none)
NoString == "<undefined>"

\* truthiness of a value that is null, undefined or a (non-empty) string
IsString(v) == v # JsNull /\ v # Undefined

\* path.join(a, b): throws TypeError unless both are strings
PathJoinThrows(a, b) == ~IsString(a) \/ ~IsString(b)
PathJoin(a, b) == a \o b

\* is p a prefix of q
IsPrefix(p, q) == Len(p) <= Len(q) /\ SubSeq(q, 1, Len(p)) = p

\* fullPath.replace(prefix + '/', ''): the first occurrence of the directory
\* prefix is removed; for the paths of the model an occurrence is a leading one
StripPrefix(p, q) ==
    IF Len(p) < Len(q) /\ IsPrefix(p, q) THEN SubSeq(q, Len(p) + 1, Len(q)) ELSE q

\* getRelativePath reads the module-level repoPath
RelativePath(rp, fullPath) == IF IsString(rp) THEN StripPrefix(rp, fullPath) ELSE fullPath

\* obj[k] = v on a map
Put(m, k, v) == [x \in (DOMAIN m) \cup {k} |-> IF x = k THEN v ELSE m[x]]

\* obj[k] ?? dflt
Get(m, k, dflt) == IF k \in DOMAIN m THEN m[k] ELSE dflt

EmptyMap == <<>>

Range(s) == {s[i] : i \in DOMAIN s}

\* the characters of the symbol names of the model
Chars(name) ==
    CASE name = "Foo" -> <<"F", "o", "o">>
      [] name = "Bar" -> <<"B", "a", "r">>
      [] name = "run()" -> <<"r", "u", "n", "(", ")">>
      [] name = "shared" -> <<"s", "h", "a", "r", "e", "d">>
      [] name = "Foo(Extras)" -> <<"F", "o", "o", "(", "E", "x", "t", "r", "a", "s", ")">>
      [] name = "" -> <<>>
      [] name = "x" -> <<"x">>
      [] name = "run" -> <<"r", "u", "n">>
      [] name = "init" -> <<"i", "n", "i", "t">>
      [] name = "initWith" -> <<"i", "n", "i", "t", "W", "i", "t", "h">>
      [] name = "init()" -> <<"i", "n", "i", "t", "(", ")">>
      [] name = "make()" -> <<"m", "a", "k", "e", "(", ")">>
      [] name = "initWithName:" ->
             <<"i", "n", "i", "t", "W", "i", "t", "h", "N", "a", "m", "e", ":">>
      [] OTHER -> <<name>>

----------------------------------------------------------------------------
(* Inputs: directories, file names, raw ASTs *)

RepoPaths == {<<"A">>, <<"B">>}

\* the source files a directory may hold; a scan finds the first k .swift
\* names and the first m .m/.h names
SwiftNames == <<"s1.swift", "s2.swift">>
ObjcNames == <<"o1.m">>

AppJson == <<"app.json">>

\* SourceKitten kind tags and the substrings (among those the extractor
\* tests with includes) each contains
KindSubstrings ==
    [ c  \in {"source.lang.swift.decl.class"}         |-> {"class"} ] @@
    [ s  \in {"source.lang.swift.decl.struct"}        |-> {"struct"} ] @@
    [ p  \in {"source.lang.swift.decl.protocol"}      |-> {"protocol"} ] @@
    [ e  \in {"source.lang.swift.decl.enum"}          |-> {"enum"} ] @@
    [ x  \in {"source.lang.swift.decl.extension"}     |-> {"extension"} ] @@
    [ f  \in {"source.lang.swift.decl.function.free"} |-> {"function"} ] @@
    [ v  \in {"source.lang.swift.decl.var.global"}    |-> {"var"} ] @@
    [ m  \in {"source.lang.swift.decl.function.method.instance"}
                                                      |-> {"function", "method"} ] @@
    [ cm \in {"source.lang.swift.decl.function.method.class"}
                                                      |-> {"class", "function", "method"} ] @@
    [ iv \in {"source.lang.swift.decl.var.instance"}  |-> {"var"} ] @@
    [ pv \in {"source.lang.swift.decl.var.parameter"} |-> {"var"} ] @@
    [ ec \in {"source.lang.swift.expr.call"}          |-> {} ]

\* kind.includes(sub); memberKind is '' when the node has no key.kind
Includes(kind, sub) == kind # NoString /\ sub \in KindSubstrings[kind]

\* a Shape-A unit is the list of its nodes in pre-order, each with its depth
\* below the root (the root itself, which has no key.kind, is not listed);
\* key.kind or key.name is NoString when the node has none.  Node is a
\* top-level node
Node(kind, name, inherited, typeName) ==
    [kind |-> kind, name |-> name, inherited |-> inherited, typeName |-> typeName,
     depth |-> 1]

\* the depth sequences of the trees of k nodes in pre-order
Shapes(k) ==
    {d \in [1..k -> 1..k] :
        /\ k > 0 => d[1] = 1
        /\ \A i \in 1..(k - 1) : d[i + 1] <= d[i] + 1}

\* the trees of at most n nodes drawn from menu
TreesUpTo(menu, n) ==
    UNION {{[i \in 1..k |-> [f[i] EXCEPT !.depth = d[i]]] : f \in [1..k -> menu], d \in Shapes(k)}
              : k \in 0..n}

DeclMenu ==
    { Node("source.lang.swift.decl.class", "Foo", <<"Bar", "NSObject">>, NoString),
      Node("source.lang.swift.decl.struct", "Foo", <<>>, NoString),
      Node("source.lang.swift.decl.protocol", "Bar", <<>>, NoString),
      Node("source.lang.swift.decl.extension", "Foo", <<"Bar">>, NoString),
      Node("source.lang.swift.decl.function.free", "run()", <<>>, NoString),
      Node("source.lang.swift.decl.var.global", "shared", <<>>, "Foo") }

SeqsUpTo(S, n) == UNION {[1..k -> S] : k \in 0..n}

SwiftAsts == SeqsUpTo(DeclMenu, MaxNodes)

\* a Shape-B unit: the nodes below the translation unit in pre-order, each
\* with its depth.  super is the superclass name (NoString when node.super is
\* absent or its id is the Clang null pointer), interface the category's
\* interface name; name is NoString when the node has none
ObjcNode(kind, name, implicit, super, protocols, interface) ==
    [kind |-> kind, name |-> name, isImplicit |-> implicit, super |-> super,
     protocols |-> protocols, interface |-> interface, depth |-> 1]

ObjcAsts ==
    { <<>>,
      << ObjcNode("ObjCInterfaceDecl", "Foo", FALSE, "NSObject", <<"Bar">>, NoString) >>,
      << ObjcNode("ObjCProtocolDecl", "Bar", FALSE, NoString, <<>>, NoString),
         ObjcNode("ObjCCategoryDecl", "Extras", FALSE, NoString, <<"Bar">>, "Foo") >> }

----------------------------------------------------------------------------
(* Symbol extraction *)

EmptySymbols ==
    [classes |-> <<>>, structs |-> <<>>, protocols |-> <<>>, functions |-> <<>>,
     enums |-> <<>>, extensions |-> <<>>, variables |-> <<>>]

\* BucketOf testing function/method before the type kinds
BucketOfFunctionFirst(kind) ==
    IF Includes(kind, "function") \/ Includes(kind, "method") THEN "functions"
    ELSE IF Includes(kind, "class") THEN "classes"
    ELSE IF Includes(kind, "struct") THEN "structs"
    ELSE IF Includes(kind, "protocol") THEN "protocols"
    ELSE IF Includes(kind, "enum") THEN "enums"
    ELSE IF Includes(kind, "extension") THEN "extensions"
    ELSE IF Includes(kind, "var") THEN "variables"
    ELSE "none"

\* lines 111-117: first matching substring decides the bucket
BucketOf(kind) ==
    IF Includes(kind, "class") THEN "classes"
    ELSE IF Includes(kind, "struct") THEN "structs"
    ELSE IF Includes(kind, "protocol") THEN "protocols"
    ELSE IF Includes(kind, "enum") THEN "enums"
    ELSE IF Includes(kind, "extension") THEN "extensions"
    ELSE IF Includes(kind, "function") \/ Includes(kind, "method") THEN "functions"
    ELSE IF Includes(kind, "var") THEN "variables"
    ELSE "none"

\* key.offset (loc.offset in Shape B) of the nodes of a flattened unit: a
\* node's position in the source, which grows along the pre-order
Located(ast) == [i \in DOMAIN ast |-> [offset |-> i] @@ ast[i]]

\* lines 100-109 (and 115 for an extension)
SymbolInfo(node, filePath) ==
    [name |-> node.name, kind |-> node.kind, file |-> filePath,
     inheritedTypes |-> node.inherited, typeName |-> node.typeName,
     offset |-> node.offset,
     extendedType |-> IF BucketOf(node.kind) = "extensions" THEN node.name ELSE NoString]

RECURSIVE Walk(_, _, _)
Walk(symbols, nodes, filePath) ==
    IF nodes = <<>> THEN symbols
    ELSE LET n == Head(nodes)
             b == IF n.kind # NoString /\ n.name # NoString THEN BucketOf(n.kind) ELSE "none"
             next == IF b = "none" THEN symbols
                     ELSE [symbols EXCEPT ![b] = Append(@, SymbolInfo(n, filePath))]
         IN  Walk(next, Tail(nodes), filePath)

extractSymbols(ast, filePath) == Walk(EmptySymbols, Located(ast), filePath)

\* the last node of the subtree of node i
SubtreeEnd(nodes, i) ==
    LET later == {j \in (i + 1)..Len(nodes) : nodes[j].depth <= nodes[i].depth}
    IN  IF later = {} THEN Len(nodes)
        ELSE (CHOOSE j \in later : \A k \in later : j <= k) - 1

\* Children taking every descendant of the node
ChildrenDeep(nodes, i) == SubSeq(nodes, i + 1, SubtreeEnd(nodes, i))

\* node['key.substructure'] (node.inner in Shape B): the direct children of
\* node i, in order
Children(nodes, i) ==
    SelectSeq(SubSeq(nodes, i + 1, SubtreeEnd(nodes, i)),
              LAMBDA m : m.depth = nodes[i].depth + 1)

\* m['key.name'] || ''
MemberName(m) == IF m.name = NoString THEN "" ELSE m.name

\* String.prototype.startsWith
StartsWith(name, prefix) == IsPrefix(Chars(prefix), Chars(name))

EmptyMembers == [properties |-> <<>>, methods |-> <<>>, initializers |-> <<>>]

\* lines 141-156
RECURSIVE MembersOf(_, _)
MembersOf(members, children) ==
    IF children = <<>> THEN members
    ELSE LET m == Head(children)
             next ==
                 IF Includes(m.kind, "function") \/ Includes(m.kind, "method")
                 THEN IF StartsWith(MemberName(m), "init")
                      THEN [members EXCEPT !.initializers =
                               Append(@, [name |-> MemberName(m)])]
                      ELSE [members EXCEPT !.methods =
                               Append(@, [name |-> MemberName(m), returnType |-> m.typeName])]
                 ELSE IF Includes(m.kind, "var")
                 THEN [members EXCEPT !.properties =
                          Append(@, [name |-> MemberName(m), type |-> m.typeName])]
                 ELSE members
         IN  MembersOf(next, Tail(children))

\* lines 132-168: the members of the first node in pre-order that has a kind
\* and the given name, as a list of one; the empty list for null
findAndExtractMembers(nodes, symbolName) ==
    LET hits == {i \in DOMAIN nodes :
                    /\ nodes[i].kind # NoString
                    /\ nodes[i].name # NoString
                    /\ nodes[i].name = symbolName}
    IN  IF hits = {} THEN <<>>
        ELSE << MembersOf(EmptyMembers,
                          Children(nodes, CHOOSE i \in hits : \A j \in hits : i <= j)) >>

\* lines 178-183
RECURSIVE MemberDataOf(_, _, _)
MemberDataOf(memberData, nodes, allSymbols) ==
    IF allSymbols = <<>> THEN memberData
    ELSE LET members == findAndExtractMembers(nodes, Head(allSymbols).name)
         IN  MemberDataOf(IF members # <<>>
                          THEN Put(memberData, Head(allSymbols).name, members[1])
                          ELSE memberData,
                          nodes, Tail(allSymbols))

\* lines 129-186
extractMemberData(ast, symbols) ==
    MemberDataOf(EmptyMap, Located(ast),
                 symbols.classes \o symbols.structs \o symbols.protocols \o symbols.enums)

\* lines 209-225, 268-275, 320-327: superclass first, then the protocol list
ObjcInherited(node) ==
    (IF node.kind = "ObjCInterfaceDecl" /\ node.super # NoString THEN <<node.super>> ELSE <<>>)
        \o node.protocols

\* `name &&` on a node's name
ObjcNamed(n) == n.name # NoString /\ n.name # ""

\* lines 231-252: the members of a class
RECURSIVE ObjcClassMembers(_, _)
ObjcClassMembers(members, children) ==
    IF children = <<>> THEN members
    ELSE LET child == Head(children)
             next ==
                 IF child.kind = "ObjCMethodDecl" /\ ObjcNamed(child)
                 THEN IF child.name = "init" \/ StartsWith(child.name, "initWith")
                      THEN [members EXCEPT !.initializers = Append(@, [name |-> child.name])]
                      ELSE [members EXCEPT !.methods = Append(@, [name |-> child.name])]
                 ELSE IF child.kind = "ObjCPropertyDecl" /\ ObjcNamed(child)
                 THEN [members EXCEPT !.properties = Append(@, [name |-> child.name])]
                 ELSE members
         IN  ObjcClassMembers(next, Tail(children))

\* lines 281-295: the members of a protocol
RECURSIVE ObjcProtocolMembers(_, _)
ObjcProtocolMembers(members, children) ==
    IF children = <<>> THEN members
    ELSE LET child == Head(children)
             next ==
                 IF child.kind = "ObjCMethodDecl" /\ ObjcNamed(child)
                 THEN [members EXCEPT !.methods = Append(@, [name |-> child.name])]
                 ELSE IF child.kind = "ObjCPropertyDecl" /\ ObjcNamed(child)
                 THEN [members EXCEPT !.properties = Append(@, [name |-> child.name])]
                 ELSE members
         IN  ObjcProtocolMembers(next, Tail(children))

\* ObjcDeclared without the isImplicit test
ObjcDeclaredImplicitToo(n, kind) == n.kind = kind /\ ObjcNamed(n)

\* lines 198, 257, 299: the guard of a declaration
ObjcDeclared(n, kind) == n.kind = kind /\ ObjcNamed(n) /\ ~n.isImplicit

\* line 308
CategoryName(interfaceName, name) == interfaceName \o "(" \o name \o ")"

\* AfterMalformed walking on into the children of the category
AfterMalformedDescending(nodes, i) == i + 1

\* lines 303-306: the walk returns at a category without an interface name,
\* and goes on with the node after its subtree
AfterMalformed(nodes, i) == SubtreeEnd(nodes, i) + 1

\* lines 192-336: walk from node i on; out is {symbols, memberData}.  A
\* category without an interface name returns before its children are walked
RECURSIVE ObjcWalk(_, _, _, _)
ObjcWalk(out, nodes, i, filePath) ==
    IF i > Len(nodes) THEN out
    ELSE LET n == nodes[i]
             info(name, kind, ext) ==
                 [name |-> name, kind |-> kind, file |-> filePath,
                  inheritedTypes |-> ObjcInherited(n), typeName |-> NoString,
                  offset |-> n.offset, extendedType |-> ext]
         IN  IF ObjcDeclared(n, "ObjCInterfaceDecl")
             THEN ObjcWalk(
                      [symbols |-> [out.symbols EXCEPT !.classes =
                                       Append(@, info(n.name, "source.lang.objc.decl.class", NoString))],
                       memberData |-> Put(out.memberData, n.name,
                                          ObjcClassMembers(EmptyMembers, Children(nodes, i)))],
                      nodes, i + 1, filePath)
             ELSE IF ObjcDeclared(n, "ObjCProtocolDecl")
             THEN ObjcWalk(
                      [symbols |-> [out.symbols EXCEPT !.protocols =
                                       Append(@, info(n.name, "source.lang.objc.decl.protocol", NoString))],
                       memberData |-> Put(out.memberData, n.name,
                                          ObjcProtocolMembers(EmptyMembers, Children(nodes, i)))],
                      nodes, i + 1, filePath)
             ELSE IF ObjcDeclared(n, "ObjCCategoryDecl")
             THEN IF n.interface = NoString
                  THEN ObjcWalk(out, nodes, AfterMalformed(nodes, i), filePath)
                  ELSE ObjcWalk(
                           [out EXCEPT !.symbols.extensions =
                               Append(@, info(CategoryName(n.interface, n.name),
                                              "source.lang.objc.decl.extension", n.interface))],
                           nodes, i + 1, filePath)
             ELSE ObjcWalk(out, nodes, i + 1, filePath)

\* lines 188-340: {symbols, memberData}
extractObjCSymbols(ast, filePath) ==
    ObjcWalk([symbols |-> EmptySymbols, memberData |-> EmptyMap], Located(ast), 1, filePath)

\* lines 490, 516: files[file] = { symbols, memberData, language }
FileEntry(path, symbols, memberData, language) ==
    [path |-> path, symbols |-> symbols, memberData |-> memberData, language |-> language]

\* the number of symbols recorded for the Swift units of files
RECURSIVE SwiftSymbolCount(_)
SwiftSymbolCount(files) ==
    IF files = <<>> THEN 0
    ELSE LET t == Head(files).symbols IN
         (IF Head(files).language = "swift"
          THEN Len(t.classes) + Len(t.structs) + Len(t.protocols) + Len(t.functions)
               + Len(t.enums) + Len(t.extensions) + Len(t.variables)
          ELSE 0)
         + SwiftSymbolCount(Tail(files))

----------------------------------------------------------------------------
(* Graph construction, lines 532-588 *)

\* PutTypes keeping the first entry of a name instead of overwriting it
RECURSIVE PutTypesKeepFirst(_, _, _, _)
PutTypesKeepFirst(typeMap, symbols, rel, kind) ==
    IF symbols = <<>> THEN typeMap
    ELSE PutTypesKeepFirst(
             IF Head(symbols).name \in DOMAIN typeMap THEN typeMap
             ELSE Put(typeMap, Head(symbols).name,
                      [file |-> rel, kind |-> kind, symbol |-> Head(symbols)]),
             Tail(symbols), rel, kind)

RECURSIVE PutTypes(_, _, _, _)
PutTypes(typeMap, symbols, rel, kind) ==
    IF symbols = <<>> THEN typeMap
    ELSE PutTypes(Put(typeMap, Head(symbols).name,
                      [file |-> rel, kind |-> kind, symbol |-> Head(symbols)]),
                  Tail(symbols), rel, kind)

\* lines 536-539 for one file
TypeMapOfFile(typeMap, fd, rel) ==
    PutTypes(PutTypes(PutTypes(PutTypes(typeMap,
        fd.symbols.classes, rel, "class"),
        fd.symbols.structs, rel, "struct"),
        fd.symbols.protocols, rel, "protocol"),
        fd.symbols.enums, rel, "enum")

RECURSIVE BuildTypeMap(_, _, _)
BuildTypeMap(typeMap, files, rp) ==
    IF files = <<>> THEN typeMap
    ELSE BuildTypeMap(TypeMapOfFile(typeMap, Head(files), RelativePath(rp, Head(files).path)),
                      Tail(files), rp)

\* line 549: the guard of an edge
Resolves(typeMap, inherited) == inherited \in DOMAIN typeMap

\* EdgesOfSymbol without the typeMap guard of line 549
RECURSIVE EdgesOfSymbolUnguarded(_, _, _, _)
EdgesOfSymbolUnguarded(typeMap, rel, symbol, inherited) ==
    IF inherited = <<>> THEN <<>>
    ELSE << [from |-> rel,
             to |-> IF Head(inherited) \in DOMAIN typeMap
                    THEN typeMap[Head(inherited)].file ELSE Undefined,
             fromSymbol |-> symbol.name, toSymbol |-> Head(inherited)] >>
         \o EdgesOfSymbolUnguarded(typeMap, rel, symbol, Tail(inherited))

RECURSIVE EdgesOfSymbol(_, _, _, _)
EdgesOfSymbol(typeMap, rel, symbol, inherited) ==
    IF inherited = <<>> THEN <<>>
    ELSE (IF Resolves(typeMap, Head(inherited))
          THEN << [from |-> rel, to |-> typeMap[Head(inherited)].file,
                   fromSymbol |-> symbol.name, toSymbol |-> Head(inherited)] >>
          ELSE <<>>)
         \o EdgesOfSymbol(typeMap, rel, symbol, Tail(inherited))

RECURSIVE EdgesOfSymbols(_, _, _)
EdgesOfSymbols(typeMap, rel, symbols) ==
    IF symbols = <<>> THEN <<>>
    ELSE EdgesOfSymbol(typeMap, rel, Head(symbols), Head(symbols).inheritedTypes)
         \o EdgesOfSymbols(typeMap, rel, Tail(symbols))

\* EdgeSources leaving the extensions out
EdgeSourcesTypesOnly(fd) ==
    fd.symbols.classes \o fd.symbols.structs \o fd.symbols.enums

\* line 546
EdgeSources(fd) ==
    fd.symbols.classes \o fd.symbols.structs \o fd.symbols.enums \o fd.symbols.extensions

RECURSIVE BuildEdges(_, _, _)
BuildEdges(typeMap, files, rp) ==
    IF files = <<>> THEN <<>>
    ELSE EdgesOfSymbols(typeMap, RelativePath(rp, Head(files).path), EdgeSources(Head(files)))
         \o BuildEdges(typeMap, Tail(files), rp)

EmptyIndexes == [byName |-> EmptyMap, byKind |-> EmptyMap, byFile |-> EmptyMap]

\* IndexSymbols assigning byName[name] instead of appending to it
RECURSIVE IndexSymbolsOverwrite(_, _, _, _)
IndexSymbolsOverwrite(indexes, symbols, rel, kind) ==
    LET withKind == IF kind \in DOMAIN indexes.byKind THEN indexes
                    ELSE [indexes EXCEPT !.byKind = Put(@, kind, <<>>)]
    IN  IF symbols = <<>> THEN withKind
        ELSE LET s == Head(symbols)
                 one == [byName |-> Put(withKind.byName, s.name,
                                        << [file |-> rel, kind |-> kind] >>),
                         byKind |-> Put(withKind.byKind, kind,
                                        Append(withKind.byKind[kind], s.name)),
                         byFile |-> Put(withKind.byFile, rel,
                                        Append(withKind.byFile[rel], s.name))]
             IN  IndexSymbolsOverwrite(one, Tail(symbols), rel, kind)

\* lines 567-581
RECURSIVE IndexSymbols(_, _, _, _)
IndexSymbols(indexes, symbols, rel, kind) ==
    LET withKind == IF kind \in DOMAIN indexes.byKind THEN indexes
                    ELSE [indexes EXCEPT !.byKind = Put(@, kind, <<>>)]
    IN  IF symbols = <<>> THEN withKind
        ELSE LET s == Head(symbols)
                 one == [byName |-> Put(withKind.byName, s.name,
                                        Append(Get(withKind.byName, s.name, <<>>),
                                               [file |-> rel, kind |-> kind])),
                         byKind |-> Put(withKind.byKind, kind,
                                        Append(withKind.byKind[kind], s.name)),
                         byFile |-> Put(withKind.byFile, rel,
                                        Append(withKind.byFile[rel], s.name))]
             IN  IndexSymbols(one, Tail(symbols), rel, kind)

\* IndexFile without the pass over the functions bucket (line 587)
IndexFileTypesOnly(indexes, fd, rel) ==
    LET start == [indexes EXCEPT !.byFile = Put(@, rel, <<>>)]
    IN  IndexSymbols(IndexSymbols(IndexSymbols(IndexSymbols(start,
            fd.symbols.classes, rel, "class"),
            fd.symbols.structs, rel, "struct"),
            fd.symbols.protocols, rel, "protocol"),
            fd.symbols.enums, rel, "enum")

\* lines 565 and 583-587 for one file
IndexFile(indexes, fd, rel) ==
    LET start == [indexes EXCEPT !.byFile = Put(@, rel, <<>>)]
    IN  IndexSymbols(IndexSymbols(IndexSymbols(IndexSymbols(IndexSymbols(start,
            fd.symbols.classes, rel, "class"),
            fd.symbols.structs, rel, "struct"),
            fd.symbols.protocols, rel, "protocol"),
            fd.symbols.enums, rel, "enum"),
            fd.symbols.functions, rel, "function")

RECURSIVE BuildIndexes(_, _, _)
BuildIndexes(indexes, files, rp) ==
    IF files = <<>> THEN indexes
    ELSE BuildIndexes(IndexFile(indexes, Head(files), RelativePath(rp, Head(files).path)),
                      Tail(files), rp)

TopLevelKeys == {"repoPath", "files", "dependencyGraph", "indexes"}

NullData ==
    [isNull |-> TRUE, has |-> {}, repoPath |-> Undefined, files |-> <<>>,
     typeMap |-> EmptyMap, edges |-> <<>>, indexes |-> EmptyIndexes]

\* lines 590-596: the object init_swift_repo publishes
BuildGraph(files, rp) ==
    LET typeMap == BuildTypeMap(EmptyMap, files, rp)
    IN  [isNull |-> FALSE, has |-> TopLevelKeys, repoPath |-> rp, files |-> files,
         typeMap |-> typeMap, edges |-> BuildEdges(typeMap, files, rp),
         indexes |-> BuildIndexes(EmptyIndexes, files, rp)]

----------------------------------------------------------------------------
(* Snapshot documents: JSON.stringify (line 600) and JSON.parse (line 665) *)

\* a document is unreadable/absent ("missing"), not JSON ("invalid"), the
\* JSON text null ("null"), or a JSON object ("object")
Doc(json, value) == [json |-> json, value |-> value]
NoDoc == Doc("missing", NullData)
InvalidDoc == Doc("invalid", NullData)
NullDoc == Doc("null", NullData)
EmptyObjectDoc == Doc("object", [NullData EXCEPT !.isNull = FALSE])

\* Serialize leaving the indexes key out of the document
SerializeWithoutIndexes(data) ==
    Doc("object", [data EXCEPT !.has = (IF data.repoPath = Undefined
                                        THEN @ \ {"repoPath"} ELSE @) \ {"indexes"},
                               !.indexes = EmptyIndexes])

\* JSON.stringify drops the keys whose value is undefined
Serialize(data) ==
    Doc("object", [data EXCEPT !.has = IF data.repoPath = Undefined
                                       THEN @ \ {"repoPath"} ELSE @])

\* an object document without the top-level keys in drop
Strip(data, drop) ==
    [isNull |-> FALSE,
     has |-> data.has \ drop,
     repoPath |-> IF "repoPath" \in drop THEN Undefined ELSE data.repoPath,
     files |-> IF "files" \in drop THEN <<>> ELSE data.files,
     typeMap |-> IF "dependencyGraph" \in drop THEN EmptyMap ELSE data.typeMap,
     edges |-> IF "dependencyGraph" \in drop THEN <<>> ELSE data.edges,
     indexes |-> IF "indexes" \in drop THEN EmptyIndexes ELSE data.indexes]

DropMenu == {{}, {"files"}, {"repoPath"}, {"indexes", "dependencyGraph"}}

OutputPaths == {PathJoin(r, AppJson) : r \in RepoPaths}

\* the documents a load_ast call may be pointed at: what init_swift_repo
\* wrote, the same with top-level keys missing, and documents that are not
\* snapshots at all
Documents ==
    {NoDoc, InvalidDoc, NullDoc, EmptyObjectDoc}
        \cup {disk[o] : o \in OutputPaths}
        \cup {Doc("object", Strip(disk[o].value, d)) :
                 o \in {x \in OutputPaths : disk[x].json = "object"}, d \in DropMenu}

----------------------------------------------------------------------------
(* Query helpers *)

Falsy(data) == data.isNull

\* lines 347-353
kindToPlural(kind) ==
    CASE kind = "class" -> "classes"
      [] kind = "struct" -> "structs"
      [] kind = "protocol" -> "protocols"
      [] kind = "enum" -> "enums"
      [] kind = "function" -> "functions"

\* astData.files?.[fullPath]
FilesAt(data, fullPath) == SelectSeq(data.files, LAMBDA fd : fd.path = fullPath)

NotFound == [status |-> "null"]
Threw == [status |-> "throw"]
Found(symbol, file, symbolKind) ==
    [status |-> "found", symbol |-> symbol, file |-> file, symbolKind |-> symbolKind]

\* TypeMapFallback never consulting typeMap
TypeMapFallbackNever(data, symbolName) == NotFound

\* lines 376-382
TypeMapFallback(data, symbolName) ==
    IF symbolName \in DOMAIN data.typeMap
    THEN LET t == data.typeMap[symbolName] IN Found(t.symbol, t.file, t.kind)
    ELSE NotFound

\* findSymbol reading the last location of the name instead of the first
findSymbolLastLocation(data, rp, symbolName) ==
    IF Falsy(data) THEN NotFound
    ELSE LET indexMatches == Get(data.indexes.byName, symbolName, <<>>) IN
         IF Len(indexMatches) > 0
         THEN LET match == indexMatches[Len(indexMatches)] IN
              IF PathJoinThrows(rp, match.file) THEN Threw
              ELSE LET fileData == FilesAt(data, PathJoin(rp, match.file))
                       symbolList ==
                           IF fileData = <<>> THEN <<>>
                           ELSE SelectSeq(fileData[1].symbols[kindToPlural(match.kind)],
                                          LAMBDA x : x.name = symbolName)
                   IN  IF symbolList # <<>>
                       THEN Found(symbolList[1], match.file, match.kind)
                       ELSE TypeMapFallback(data, symbolName)
         ELSE TypeMapFallback(data, symbolName)

\* lines 355-383
findSymbol(data, rp, symbolName) ==
    IF Falsy(data) THEN NotFound
    ELSE LET indexMatches == Get(data.indexes.byName, symbolName, <<>>) IN
         IF Len(indexMatches) > 0
         THEN LET match == indexMatches[1] IN
              IF PathJoinThrows(rp, match.file) THEN Threw
              ELSE LET fileData == FilesAt(data, PathJoin(rp, match.file))
                       symbolList ==
                           IF fileData = <<>> THEN <<>>
                           ELSE SelectSeq(fileData[1].symbols[kindToPlural(match.kind)],
                                          LAMBDA x : x.name = symbolName)
                   IN  IF symbolList # <<>>
                       THEN Found(symbolList[1], match.file, match.kind)
                       ELSE TypeMapFallback(data, symbolName)
         ELSE TypeMapFallback(data, symbolName)

\* lines 689-702: which kind of result explain_symbol gives
ExplainRet(data, rp, symbolName) ==
    IF Falsy(data) THEN "NoAST"
    ELSE LET symbol == findSymbol(data, rp, symbolName) IN
         IF symbol.status = "throw" THEN "throw"
         ELSE IF symbol.status = "null" THEN "NotFound"
         ELSE IF PathJoinThrows(rp, symbol.file) THEN "throw"
         ELSE "Data"

\* InheritedBy selecting the edges that start at the symbol
InheritedByOutgoing(data, symbolName) ==
    LET hits == SelectSeq(data.edges, LAMBDA e : e.fromSymbol = symbolName)
    IN  [i \in DOMAIN hits |-> [name |-> hits[i].fromSymbol, file |-> hits[i].from]]

\* lines 705-707
InheritedBy(data, symbolName) ==
    LET hits == SelectSeq(data.edges, LAMBDA e : e.toSymbol = symbolName)
    IN  [i \in DOMAIN hits |-> [name |-> hits[i].fromSymbol, file |-> hits[i].from]]

\* lines 713-719
FilesWithSymbol(data, symbol, symbolName) ==
    {loc.file : loc \in {l \in Range(Get(data.indexes.byName, symbolName, <<>>)) :
                            l.file # symbol.file}}

\* lines 726-730 for one file
ExtensionsOfFile(fd, rel, symbolName) ==
    LET hits == SelectSeq(fd.symbols.extensions, LAMBDA x : x.name = symbolName)
    IN  [i \in DOMAIN hits |-> [file |-> rel, conformances |-> hits[i].inheritedTypes]]

\* UsesSymbol without the scan of the unit's symbols (lines 735-740)
UsesSymbolIndexOnly(data, fd, rel, symbol, symbolName) ==
    rel \in FilesWithSymbol(data, symbol, symbolName)

\* lines 733-740
UsesSymbol(data, fd, rel, symbol, symbolName) ==
    \/ rel \in FilesWithSymbol(data, symbol, symbolName)
    \/ \E b \in DOMAIN fd.symbols : \E x \in Range(fd.symbols[b]) :
           x.typeName = symbolName \/ symbolName \in Range(x.inheritedTypes)

\* lines 721-743: the loop over the units, collecting extensions
RECURSIVE Extensions(_, _, _, _)
Extensions(files, rp, symbol, symbolName) ==
    IF files = <<>> THEN <<>>
    ELSE LET rel == RelativePath(rp, Head(files).path) IN
         (IF rel = symbol.file THEN <<>> ELSE ExtensionsOfFile(Head(files), rel, symbolName))
         \o Extensions(Tail(files), rp, symbol, symbolName)

\* lines 721-743: the loop over the units, collecting referencedIn
RECURSIVE ReferencedIn(_, _, _, _, _)
ReferencedIn(data, files, rp, symbol, symbolName) ==
    IF files = <<>> THEN <<>>
    ELSE LET rel == RelativePath(rp, Head(files).path) IN
         (IF rel # symbol.file /\ UsesSymbol(data, Head(files), rel, symbol, symbolName)
          THEN <<rel>> ELSE <<>>)
         \o ReferencedIn(data, Tail(files), rp, symbol, symbolName)

\* what a handler computed for its response; NoOut when it computed nothing
NoOut == [kind |-> "none"]

\* lines 694-743: the symbol explain_symbol resolved and the usage lists it
\* collected for it
ExplainOut(data, rp, symbolName) ==
    IF Falsy(data) THEN NoOut
    ELSE LET symbol == findSymbol(data, rp, symbolName) IN
         IF ExplainRet(data, rp, symbolName) = "Data"
         THEN [kind |-> "usages", symbolName |-> symbolName, symbol |-> symbol,
               inheritedBy |-> InheritedBy(data, symbolName),
               extendedIn |-> Extensions(data.files, rp, symbol, symbolName),
               referencedIn |-> ReferencedIn(data, data.files, rp, symbol, symbolName)]
         ELSE [kind |-> "resolve", symbolName |-> symbolName, symbol |-> symbol]

\* String.prototype.toLowerCase on the characters of the model
ToLower(ch) ==
    CASE ch = "F" -> "f"
      [] ch = "B" -> "b"
      [] ch = "E" -> "e"
      [] OTHER -> ch

LowerCase(s) == [i \in DOMAIN s |-> ToLower(s[i])]

\* String.prototype.includes
StrIncludes(s, q) == \E i \in 0..(Len(s) - Len(q)) : SubSeq(s, i + 1, i + Len(q)) = q

SearchQueries == { <<"f", "O">>, <<"r">>, <<"z">> }
SessionQueries == { <<"f", "O">>, <<"z">> }
SessionTypes == {"all", "function"}
SearchTypes == {"all", "class", "struct", "protocol", "function", "enum"}

\* lines 821-827
SearchAdd(symbols, kind, rel, q) ==
    LET hits == SelectSeq(symbols, LAMBDA x : StrIncludes(LowerCase(Chars(x.name)), q))
    IN  [i \in DOMAIN hits |->
            [name |-> hits[i].name, kind |-> kind, file |-> rel,
             inherited |-> hits[i].inheritedTypes]]

\* SearchFile taking every bucket whatever the type filter says
SearchFileAnyKind(fd, rel, q, type) ==
    LET pick(bucket, kind) == SearchAdd(fd.symbols[bucket], kind, rel, q)
    IN  pick("classes", "class") \o pick("structs", "struct")
            \o pick("protocols", "protocol") \o pick("functions", "function")
            \o pick("enums", "enum")

\* lines 829-833 for one file
SearchFile(fd, rel, q, type) ==
    LET pick(bucket, kind) ==
            IF type = "all" \/ type = kind THEN SearchAdd(fd.symbols[bucket], kind, rel, q)
            ELSE <<>>
    IN  pick("classes", "class") \o pick("structs", "struct")
            \o pick("protocols", "protocol") \o pick("functions", "function")
            \o pick("enums", "enum")

RECURSIVE SearchFiles(_, _, _, _)
SearchFiles(files, rp, q, type) ==
    IF files = <<>> THEN <<>>
    ELSE SearchFile(Head(files), RelativePath(rp, Head(files).path), q, type)
         \o SearchFiles(Tail(files), rp, q, type)

\* lines 816-834
SearchResults(data, rp, query, type) == SearchFiles(data.files, rp, LowerCase(query), type)

\* lines 811-849
SearchRet(data, rp, query, type) ==
    IF Falsy(data) THEN "NoAST"
    ELSE IF SearchResults(data, rp, query, type) = <<>> THEN "NoResults"
    ELSE "Data"

\* lines 816-834: the results array of search_symbols
SearchOut(data, rp, query, type) ==
    IF Falsy(data) THEN NoOut
    ELSE [kind |-> "results", query |-> query, type |-> type,
          results |-> SearchResults(data, rp, query, type)]

\* StatsRet without the precondition check of lines 862-864
StatsRetNoGuard(data, rp) ==
    IF "files" \notin data.has THEN "throw" ELSE "Data"

\* lines 861-903: Object.keys(astData.files) at line 885 throws on undefined
StatsRet(data, rp) ==
    IF Falsy(data) THEN "NoAST"
    ELSE IF "files" \notin data.has THEN "throw"
    ELSE "Data"

\* the inputs of get_file_overview tried: a whole path component (a file
\* name or a directory name), matched against the components of each key
OverviewInputs == {"s1.swift", "A", "nomatch"}

\* line 923
OverviewMatches(data, input) == SelectSeq(data.files, LAMBDA fd : input \in Range(fd.path))

\* lines 917-962
OverviewRet(data, rp, input) ==
    IF Falsy(data) THEN "NoAST"
    ELSE IF "files" \notin data.has THEN "throw"
    ELSE IF Len(OverviewMatches(data, input)) = 0 THEN "NoFile"
    ELSE IF Len(OverviewMatches(data, input)) > 1 THEN "Multiple"
    ELSE "Data"

----------------------------------------------------------------------------
(* The state machine *)

CallIds == {1, 2}

Idle ==
    [pc |-> "idle", inputPath |-> Undefined, clangAvailable |-> FALSE,
     swift |-> <<>>, objc |-> <<>>, i |-> 0, ast |-> <<>>, files |-> <<>>,
     swiftProcessed |-> 0, swiftErrors |-> 0, objcProcessed |-> 0, objcErrors |-> 0,
     errorDetails |-> <<>>, outputPath |-> Undefined, content |-> NoDoc]

\* lines 494-498 and 520-524: one entry of errorDetails
ErrorDetail(rel, language) == [file |-> rel, language |-> language]

Returned(op, ret) == [op |-> op, ret |-> ret, out |-> NoOut]

Answered(op, ret, out) == [op |-> op, ret |-> ret, out |-> out]

QueryTools == {"explain_symbol", "search_symbols", "get_codebase_stats", "get_file_overview"}

SymbolNames == {"Foo", "Bar", "run()", "NSObject"}

Init ==
    /\ astData = NullData
    /\ repoPath = JsNull
    /\ calls = [c \in CallIds |-> Idle]
    /\ disk = [o \in OutputPaths |-> NoDoc]
    /\ inits = 0
    /\ last = Returned("none", "none")

\* what a scan of a directory can find: the first k .swift and first m .m/.h names
ScanResult(k, m) == [swift |-> k, objc |-> m]
Scans == {ScanResult(k, m) : k \in 0..Len(SwiftNames), m \in 0..Len(ObjcNames)}

\* lines 532-600 up to the await of writeFile: build, publish, start saving.
\* path.join (line 599) throws when repoPath is no longer a string.
Publish(c, rec) ==
    LET done == [rec EXCEPT !.objcErrors =
                    IF ~rec.clangAvailable /\ Len(rec.objc) > 0 THEN Len(rec.objc) ELSE @]
        graph == BuildGraph(done.files, repoPath)
    IN  /\ astData' = graph
        /\ IF PathJoinThrows(repoPath, AppJson)
           THEN /\ calls' = [calls EXCEPT ![c] = Idle]
                /\ last' = Returned("init_swift_repo", "error")
           ELSE /\ calls' = [calls EXCEPT ![c] =
                        [done EXCEPT !.pc = "save",
                                     !.outputPath = PathJoin(repoPath, AppJson),
                                     !.content = Serialize(graph)]]
                /\ last' = Returned("init_swift_repo", "pending")

\* lines 478-530: run on to the next await (the next file's AST command), or,
\* when no file is left, to the save.  rec.pc / rec.i name the await that
\* has just resolved.
Resume(c, rec) ==
    LET swiftLeft == \/ rec.pc = "scan" /\ Len(rec.swift) > 0
                     \/ rec.pc = "swift" /\ rec.i < Len(rec.swift)
        objcLoop == rec.clangAvailable /\ Len(rec.objc) > 0
        objcLeft == \/ rec.pc \in {"scan", "swift"} /\ ~swiftLeft /\ objcLoop
                    \/ rec.pc = "objc" /\ rec.i < Len(rec.objc)
    IN  IF swiftLeft
        THEN /\ calls' = [calls EXCEPT ![c] =
                     [rec EXCEPT !.pc = "swift", !.i = IF rec.pc = "scan" THEN 1 ELSE @ + 1]]
             /\ last' = Returned("init_swift_repo", "pending")
             /\ UNCHANGED astData
        ELSE IF objcLeft
        THEN /\ calls' = [calls EXCEPT ![c] =
                     [rec EXCEPT !.pc = "objc", !.i = IF rec.pc = "objc" THEN @ + 1 ELSE 1]]
             /\ last' = Returned("init_swift_repo", "pending")
             /\ UNCHANGED astData
        ELSE Publish(c, rec)

\* lines 423-459: validation, then repoPath = inputPath and the scan begins
InitStart(c, inputPath) ==
    /\ calls[c].pc = "idle"
    /\ inits < MaxInits
    /\ inits' = inits + 1
    /\ \E check \in {"stat failed", "not a directory", "no project", "no sourcekitten", "ok"} :
         IF check = "ok"
         THEN \E clang \in BOOLEAN :
                /\ repoPath' = inputPath
                /\ calls' = [calls EXCEPT ![c] =
                       [Idle EXCEPT !.pc = "scan", !.inputPath = inputPath,
                                    !.clangAvailable = clang]]
                /\ last' = Returned("init_swift_repo", "pending")
         ELSE /\ last' = Returned("init_swift_repo", "error")
              /\ UNCHANGED <<repoPath, calls>>
    /\ UNCHANGED <<astData, disk>>

\* lines 459-469: findSourceFiles resolves (or rejects)
InitScanned(c, scans) ==
    /\ calls[c].pc = "scan"
    /\ \/ /\ calls' = [calls EXCEPT ![c] = Idle]
          /\ last' = Returned("init_swift_repo", "error")
          /\ UNCHANGED astData
       \/ \E scan \in scans :
            LET dir == calls[c].inputPath
                rec == [calls[c] EXCEPT
                          !.swift = [j \in 1..scan.swift |-> PathJoin(dir, <<SwiftNames[j]>>)],
                          !.objc = [j \in 1..scan.objc |-> PathJoin(dir, <<ObjcNames[j]>>)]]
            IN  IF scan.swift = 0 /\ scan.objc = 0
                THEN /\ calls' = [calls EXCEPT ![c] = Idle]
                     /\ last' = Returned("init_swift_repo", "error")
                     /\ UNCHANGED astData
                ELSE Resume(c, rec)
    /\ UNCHANGED <<repoPath, disk, inits>>

\* InitSwiftDone giving up on the remaining units when one fails
InitSwiftDoneAborting(c, asts) ==
    /\ calls[c].pc = "swift"
    /\ LET file == calls[c].swift[calls[c].i] IN
       \/ \E ast \in asts :
            /\ SwiftSymbolCount(calls[c].files) + Len(ast) <= MaxNodes
            /\ Resume(c, [calls[c] EXCEPT
                          !.ast = ast,
                          !.files = Append(@, FileEntry(file, extractSymbols(ast, file),
                                        extractMemberData(ast, extractSymbols(ast, file)),
                                        "swift")),
                          !.swiftProcessed = @ + 1])
       \/ Publish(c, [calls[c] EXCEPT
                        !.swiftErrors = @ + 1,
                        !.errorDetails = Append(@, ErrorDetail(RelativePath(repoPath, file), "swift"))])
    /\ UNCHANGED <<repoPath, disk, inits>>

\* lines 486-499: sourcekitten's output for swift[i] arrives (or the command
\* or JSON.parse fails)
InitSwiftDone(c, asts) ==
    /\ calls[c].pc = "swift"
    /\ LET file == calls[c].swift[calls[c].i] IN
       \/ \E ast \in asts :
            /\ SwiftSymbolCount(calls[c].files) + Len(ast) <= MaxNodes
            /\ Resume(c, [calls[c] EXCEPT
                          !.ast = ast,
                          !.files = Append(@, FileEntry(file, extractSymbols(ast, file),
                                        extractMemberData(ast, extractSymbols(ast, file)),
                                        "swift")),
                          !.swiftProcessed = @ + 1])
       \/ Resume(c, [calls[c] EXCEPT
                        !.swiftErrors = @ + 1,
                        !.errorDetails = Append(@, ErrorDetail(RelativePath(repoPath, file), "swift"))])
    /\ UNCHANGED <<repoPath, disk, inits>>

\* lines 513-525: clang's output for objc[i] arrives (or fails)
InitObjcDone(c, asts) ==
    /\ calls[c].pc = "objc"
    /\ LET file == calls[c].objc[calls[c].i] IN
       \/ \E ast \in asts :
            Resume(c, [calls[c] EXCEPT
                          !.ast = ast,
                          !.files = Append(@, FileEntry(file, extractObjCSymbols(ast, file).symbols,
                                        extractObjCSymbols(ast, file).memberData, "objc")),
                          !.objcProcessed = @ + 1])
       \/ Resume(c, [calls[c] EXCEPT
                        !.objcErrors = @ + 1,
                        !.errorDetails = Append(@, ErrorDetail(RelativePath(repoPath, file), "objc"))])
    /\ UNCHANGED <<repoPath, disk, inits>>

\* lines 600-647: writeFile resolves (success message) or rejects (catch)
InitSaved(c) ==
    /\ calls[c].pc = "save"
    /\ \/ /\ disk' = [disk EXCEPT ![calls[c].outputPath] = calls[c].content]
          /\ last' = Returned("init_swift_repo", "ok")
       \/ /\ last' = Returned("init_swift_repo", "error")
          /\ UNCHANGED disk
    /\ calls' = [calls EXCEPT ![c] = Idle]
    /\ UNCHANGED <<astData, repoPath, inits>>

\* lines 662-675
LoadAst(doc) ==
    /\ IF doc.json \in {"missing", "invalid"}
       THEN /\ last' = Returned("load_ast", "error")
            /\ UNCHANGED <<astData, repoPath>>
       ELSE IF doc.json = "null"
       THEN /\ astData' = NullData
            /\ last' = Returned("load_ast", "error")
            /\ UNCHANGED repoPath
       ELSE /\ astData' = doc.value
            /\ repoPath' = doc.value.repoPath
            /\ last' = Returned("load_ast", "ok")
    /\ UNCHANGED <<calls, disk, inits>>

\* ExplainSymbol re-synchronising repoPath with the graph after it answered
ExplainSymbolResyncs(symbolName) ==
    /\ last' = Answered("explain_symbol", ExplainRet(astData, repoPath, symbolName),
                        ExplainOut(astData, repoPath, symbolName))
    /\ repoPath' = IF astData.isNull THEN repoPath ELSE astData.repoPath
    /\ UNCHANGED <<astData, calls, disk, inits>>

\* lines 689-796
ExplainSymbol(symbolName) ==
    /\ last' = Answered("explain_symbol", ExplainRet(astData, repoPath, symbolName),
                        ExplainOut(astData, repoPath, symbolName))
    /\ UNCHANGED <<astData, repoPath, calls, disk, inits>>

\* lines 811-849
SearchSymbols(query, type) ==
    /\ last' = Answered("search_symbols", SearchRet(astData, repoPath, query, type),
                        SearchOut(astData, repoPath, query, type))
    /\ UNCHANGED <<astData, repoPath, calls, disk, inits>>

\* GetCodebaseStats re-synchronising repoPath with the graph it reads
GetCodebaseStatsResyncs ==
    /\ last' = Returned("get_codebase_stats", StatsRet(astData, repoPath))
    /\ repoPath' = IF astData.isNull THEN repoPath ELSE astData.repoPath
    /\ UNCHANGED <<astData, calls, disk, inits>>

\* lines 861-903
GetCodebaseStats ==
    /\ last' = Returned("get_codebase_stats", StatsRet(astData, repoPath))
    /\ UNCHANGED <<astData, repoPath, calls, disk, inits>>

\* lines 917-962
GetFileOverview(input) ==
    /\ last' = Returned("get_file_overview", OverviewRet(astData, repoPath, input))
    /\ UNCHANGED <<astData, repoPath, calls, disk, inits>>

----------------------------------------------------------------------------
(* Spec: one init_swift_repo call in flight at a time, interleaved at its
   awaits with load_ast and the four query tools; small units *)

SessionCalls == {1}

SessionScans == {ScanResult(0, 0), ScanResult(1, 0), ScanResult(1, 1), ScanResult(0, 1)}

SessionSwiftAsts ==
    { << Node("source.lang.swift.decl.class", "Foo", <<"Bar", "NSObject">>, NoString),
         Node("source.lang.swift.decl.protocol", "Bar", <<>>, NoString),
         Node("source.lang.swift.decl.function.free", "run()", <<>>, NoString) >> }

SessionObjcAsts ==
    { << ObjcNode("ObjCInterfaceDecl", "Foo", FALSE, "NSObject", <<"Bar">>, NoString) >> }

SessionNames == {"Foo", "Bar", "NSObject"}

Next ==
    \/ \E c \in SessionCalls, p \in RepoPaths : InitStart(c, p)
    \/ \E c \in SessionCalls : InitScanned(c, SessionScans)
    \/ \E c \in SessionCalls : InitSwiftDone(c, SessionSwiftAsts)
    \/ \E c \in SessionCalls : InitObjcDone(c, SessionObjcAsts)
    \/ \E c \in SessionCalls : InitSaved(c)
    \/ \E doc \in Documents : LoadAst(doc)
    \/ \E n \in SessionNames : ExplainSymbol(n)
    \/ \E q \in SessionQueries, t \in SessionTypes : SearchSymbols(q, t)
    \/ GetCodebaseStats
    \/ \E f \in OverviewInputs : GetFileOverview(f)

Spec == Init /\ [][Next]_vars

----------------------------------------------------------------------------
(* SpecBuild: the first build of a session, over every unit the menus give *)

\* the directory of the build
BuildRepoPaths == {<<"A">>}

NextBuild ==
    \/ \E c \in SessionCalls, p \in BuildRepoPaths : astData.isNull /\ InitStart(c, p)
    \/ \E c \in SessionCalls : InitScanned(c, Scans)
    \/ \E c \in SessionCalls : InitSwiftDone(c, SwiftAsts)
    \/ \E c \in SessionCalls : InitObjcDone(c, ObjcAsts)
    \/ \E c \in SessionCalls : InitSaved(c)

SpecBuild == Init /\ [][NextBuild]_vars

----------------------------------------------------------------------------
(* SpecQuery: the first build of a session over every unit the menus give,
   then load_ast of the snapshot it saved, explain_symbol and search_symbols *)

QuerySwiftAsts == SeqsUpTo({n \in DeclMenu : n.kind # "source.lang.swift.decl.struct"}, MaxNodes)

QueryObjcAsts ==
    { << ObjcNode("ObjCProtocolDecl", "Bar", FALSE, NoString, <<>>, NoString),
         ObjcNode("ObjCCategoryDecl", "Extras", FALSE, NoString, <<"Bar">>, "Foo") >> }

QueryQueries == { <<"f", "O">>, <<"r">> }

QueryTypes == {"all", "class", "function"}

\* a query is asked once after each build or load
MayAsk == calls[1].pc = "idle" /\ ~astData.isNull /\ last.op \notin QueryTools

NextQuery ==
    \/ \E c \in SessionCalls, p \in BuildRepoPaths : astData.isNull /\ InitStart(c, p)
    \/ \E c \in SessionCalls : InitScanned(c, Scans)
    \/ \E c \in SessionCalls : InitSwiftDone(c, QuerySwiftAsts)
    \/ \E c \in SessionCalls : InitObjcDone(c, QueryObjcAsts)
    \/ \E c \in SessionCalls : InitSaved(c)
    \/ \E o \in OutputPaths : calls[1].pc = "idle" /\ LoadAst(disk[o])
    \/ \E n \in SymbolNames : MayAsk /\ ExplainSymbol(n)
    \/ \E q \in QueryQueries, t \in QueryTypes : MayAsk /\ SearchSymbols(q, t)

SpecQuery == Init /\ [][NextQuery]_vars

----------------------------------------------------------------------------
(* SpecOverlap: two init_swift_repo calls whose awaits interleave; small
   units *)

NextOverlap ==
    \/ \E c \in CallIds, p \in RepoPaths : InitStart(c, p)
    \/ \E c \in CallIds : InitScanned(c, SessionScans)
    \/ \E c \in CallIds : InitSwiftDone(c, SessionSwiftAsts)
    \/ \E c \in CallIds : InitObjcDone(c, SessionObjcAsts)
    \/ \E c \in CallIds : InitSaved(c)

SpecOverlap == Init /\ [][NextOverlap]_vars

----------------------------------------------------------------------------
(* SpecExtract: the build of a directory holding one unit, over the trees the
   menus give *)

ExtractScans == {ScanResult(1, 0), ScanResult(0, 1)}

\* nodes to classify: kinds holding one, several or none of the substrings
\* the extractor tests, and a node without a name
ClassifyMenu ==
    { Node("source.lang.swift.decl.class", "Foo", <<"Bar">>, NoString),
      Node("source.lang.swift.decl.function.method.class", "make()", <<>>, "Foo"),
      Node("source.lang.swift.decl.function.method.instance", "make()", <<>>, "Foo"),
      Node("source.lang.swift.decl.var.parameter", NoString, <<>>, "Foo"),
      Node("source.lang.swift.expr.call", "run", <<>>, NoString) }

\* a type, its members, and other nodes of the type's name
MemberMenu ==
    { Node("source.lang.swift.decl.class", "Foo", <<"Bar">>, NoString),
      Node("source.lang.swift.decl.var.instance", "Foo", <<>>, "Foo"),
      Node("source.lang.swift.decl.function.method.instance", "init()", <<>>, NoString),
      Node("source.lang.swift.decl.function.method.instance", "make()", <<>>, "Foo"),
      Node(NoString, "Foo", <<>>, NoString) }

\* the Swift units of at most n nodes
ExtractSwiftAsts(n) == TreesUpTo(ClassifyMenu, n) \cup TreesUpTo(MemberMenu, n)

\* declarations with their members
ObjcMemberMenu ==
    { ObjcNode("ObjCInterfaceDecl", "Foo", FALSE, "NSObject", <<"Bar">>, NoString),
      ObjcNode("ObjCProtocolDecl", "Bar", FALSE, NoString, <<>>, NoString),
      ObjcNode("ObjCMethodDecl", "init", FALSE, NoString, <<>>, NoString),
      ObjcNode("ObjCMethodDecl", "initWithName:", FALSE, NoString, <<>>, NoString),
      ObjcNode("ObjCMethodDecl", "run", FALSE, NoString, <<>>, NoString),
      ObjcNode("ObjCPropertyDecl", "x", FALSE, NoString, <<>>, NoString) }

\* written and implicit declarations
ObjcImplicitMenu ==
    { ObjcNode("ObjCInterfaceDecl", "Foo", FALSE, "NSObject", <<"Bar">>, NoString),
      ObjcNode("ObjCInterfaceDecl", "Foo", TRUE, NoString, <<>>, NoString),
      ObjcNode("ObjCProtocolDecl", "Bar", FALSE, NoString, <<>>, NoString),
      ObjcNode("ObjCProtocolDecl", "Bar", TRUE, NoString, <<>>, NoString),
      ObjcNode("ObjCCategoryDecl", "Extras", TRUE, NoString, <<"Bar">>, "Foo") }

\* categories with and without an interface, a class extension (a category
\* without a name), and a declaration that may sit below them
ObjcCategoryMenu ==
    { ObjcNode("ObjCCategoryDecl", "Extras", FALSE, NoString, <<"Bar">>, "Foo"),
      ObjcNode("ObjCCategoryDecl", "Extras", FALSE, NoString, <<"Bar">>, NoString),
      ObjcNode("ObjCCategoryDecl", NoString, FALSE, NoString, <<"Bar">>, "Foo"),
      ObjcNode("ObjCProtocolDecl", "Bar", FALSE, NoString, <<>>, NoString) }

\* the Objective-C units of at most n nodes
ExtractObjcAsts(n) ==
    TreesUpTo(ObjcMemberMenu, n) \cup TreesUpTo(ObjcImplicitMenu, n)
        \cup TreesUpTo(ObjcCategoryMenu, n)

NextExtract ==
    \/ \E c \in SessionCalls, p \in BuildRepoPaths : astData.isNull /\ InitStart(c, p)
    \/ \E c \in SessionCalls : InitScanned(c, ExtractScans)
    \/ \E c \in SessionCalls : InitSwiftDone(c, ExtractSwiftAsts(MaxNodes))
    \/ \E c \in SessionCalls : InitObjcDone(c, ExtractObjcAsts(MaxNodes))
    \/ \E c \in SessionCalls : InitSaved(c)

SpecExtract == Init /\ [][NextExtract]_vars

----------------------------------------------------------------------------
(* Properties *)

NoCallInProgress == \A c \in CallIds : calls[c].pc = "idle"

Loaded == ~astData.isNull

TypeBuckets == {"classes", "structs", "protocols", "enums"}
IndexedBuckets == TypeBuckets \cup {"functions"}
AllBuckets == IndexedBuckets \cup {"extensions", "variables"}
IndexedKinds == {"class", "struct", "protocol", "enum", "function"}

\* the names of the symbols a unit holds in the given buckets
NamesIn(fd, buckets) == UNION {{x.name : x \in Range(fd.symbols[b])} : b \in buckets}

\* the path the graph records for a unit
RelOf(fd) == RelativePath(astData.repoPath, fd.path)

\* C1: once every init_swift_repo / load_ast call has returned and a graph
\* is held, the module-level repoPath is the repoPath of that graph.
C1_RepoPathMatchesGraph ==
    (NoCallInProgress /\ Loaded) => repoPath = astData.repoPath

\* C2: a query that ran while an init_swift_repo call was suspended at an
\* await saw astData and repoPath of one and the same build.
C2_QuerySeesOneBuild ==
    (last.op \in QueryTools /\ ~NoCallInProgress /\ Loaded) => repoPath = astData.repoPath

\* C3: with no graph held, each of the four query tools answers with the
\* 'No AST loaded' precondition failure.
C3_NoAstPrecondition ==
    (last.op \in QueryTools /\ ~Loaded) => last.ret = "NoAST"

\* a query answered 'No AST loaded' after an earlier build had been saved
\* and the graph was lost again
C3_Witness ==
    /\ last = Returned("get_codebase_stats", "NoAST")
    /\ ~Loaded
    /\ \E o \in OutputPaths : disk[o].json = "object"

\* the (unit, symbol, position) triples of inherited names that some scanned
\* unit declares as a class, struct, protocol or enum
ResolvableInherited(files) ==
    {t \in UNION {UNION {{<<i, j, k>> : k \in DOMAIN EdgeSources(files[i])[j].inheritedTypes}
                         : j \in DOMAIN EdgeSources(files[i])} : i \in DOMAIN files} :
        \E u \in DOMAIN files :
            EdgeSources(files[t[1]])[t[2]].inheritedTypes[t[3]] \in NamesIn(files[u], TypeBuckets)}

LastDeclaring(files, name) ==
    CHOOSE i \in DOMAIN files :
        /\ name \in NamesIn(files[i], TypeBuckets)
        /\ \A k \in DOMAIN files : k > i => name \notin NamesIn(files[k], TypeBuckets)

\* C5: typeMap has an entry for exactly the names declared as class, struct,
\* protocol or enum, and the entry (file, kind, symbol) of a name is taken
\* from the last unit in processing order that declares it.
C5_TypeMapLastWriteWins ==
    Loaded =>
        /\ DOMAIN astData.typeMap =
               UNION {NamesIn(astData.files[i], TypeBuckets) : i \in DOMAIN astData.files}
        /\ \A n \in DOMAIN astData.typeMap :
               LET fd == astData.files[LastDeclaring(astData.files, n)]
                   e == astData.typeMap[n]
               IN  /\ e.file = RelOf(fd)
                   /\ e.kind \in IndexedKinds \ {"function"}
                   /\ e.symbol.name = n
                   /\ e.symbol \in Range(fd.symbols[kindToPlural(e.kind)])

\* two units declare a type named Foo and typeMap holds the later one's
C5_Witness ==
    /\ Loaded
    /\ Len(astData.files) >= 2
    /\ "Foo" \in NamesIn(astData.files[1], TypeBuckets)
    /\ "Foo" \in NamesIn(astData.files[2], TypeBuckets)
    /\ astData.typeMap["Foo"].symbol.file = astData.files[2].path

\* how many elements of sequence s satisfy Test
CountIn(s, Test(_)) == Cardinality({i \in DOMAIN s : Test(s[i])})

\* the position of the unit a byName entry names
UnitIndex(files, rel) == CHOOSE i \in DOMAIN files : RelOf(files[i]) = rel

\* C6: byName[name] has one {file, kind} entry per class, struct, protocol,
\* enum or function occurrence of the name (no overwrite, no dedup), and
\* its entries follow the processing order of the units.
C6_ByNameKeepsEveryOccurrence ==
    Loaded =>
        LET files == astData.files
            byName == astData.indexes.byName
        IN  /\ DOMAIN byName = UNION {NamesIn(files[i], IndexedBuckets) : i \in DOMAIN files}
            /\ \A n \in DOMAIN byName :
                 /\ \A p \in DOMAIN byName[n] :
                        /\ byName[n][p].kind \in IndexedKinds
                        /\ \E i \in DOMAIN files : RelOf(files[i]) = byName[n][p].file
                 /\ \A i \in DOMAIN files, k \in IndexedKinds :
                        CountIn(byName[n],
                                LAMBDA e : e = [file |-> RelOf(files[i]), kind |-> k])
                        = CountIn(files[i].symbols[kindToPlural(k)], LAMBDA x : x.name = n)
                 /\ \A p, q \in DOMAIN byName[n] :
                        p < q => UnitIndex(files, byName[n][p].file)
                                     <= UnitIndex(files, byName[n][q].file)

\* two units each declare class Foo and byName.Foo has the two entries
C6_Witness ==
    /\ Loaded
    /\ Len(astData.files) = 2
    /\ \A i \in {1, 2} : Len(astData.files[i].symbols.classes) = 1
                         /\ astData.files[i].symbols.classes[1].name = "Foo"
    /\ astData.indexes.byName["Foo"] =
           << [file |-> RelOf(astData.files[1]), kind |-> "class"],
              [file |-> RelOf(astData.files[2]), kind |-> "class"] >>

\* C7 as claimed: the name of every entry of a unit's symbol table, whatever
\* its bucket, is in byFile of the unit.
C7_EverySymbolInByFile ==
    Loaded =>
        \A i \in DOMAIN astData.files :
            /\ RelOf(astData.files[i]) \in DOMAIN astData.indexes.byFile
            /\ NamesIn(astData.files[i], AllBuckets)
                   \subseteq Range(astData.indexes.byFile[RelOf(astData.files[i])])

\* C7 amended: the name of every class, struct, protocol, enum and function
\* symbol of a unit is in byFile of the unit.
C7_IndexedSymbolsInByFile ==
    Loaded =>
        \A i \in DOMAIN astData.files :
            /\ RelOf(astData.files[i]) \in DOMAIN astData.indexes.byFile
            /\ NamesIn(astData.files[i], IndexedBuckets)
                   \subseteq Range(astData.indexes.byFile[RelOf(astData.files[i])])

\* a unit with a function and an extension: byFile lists the function
C7_Witness ==
    /\ Loaded
    /\ \E i \in DOMAIN astData.files :
          /\ astData.files[i].symbols.functions # <<>>
          /\ astData.files[i].symbols.extensions # <<>>
          /\ astData.indexes.byFile[RelOf(astData.files[i])] = <<"run()">>

\* C8: a load_ast call that reports an error leaves astData and repoPath as
\* they were.
C8_FailedLoadKeepsState ==
    [][(last'.op = "load_ast" /\ last'.ret = "error")
          => (astData' = astData /\ repoPath' = repoPath)]_vars

\* C9: no tool invocation throws past its handler.
C9_NoToolThrows == last.ret # "throw"

\* C10: a step of one of the four query tools leaves astData and repoPath
\* unchanged.
C10_QueriesReadOnly ==
    [][last'.op \in QueryTools => (astData' = astData /\ repoPath' = repoPath)]_vars

\* a query answered with data from a held graph whose repoPath differs from
\* the module-level repoPath
C10_Witness ==
    /\ last.op \in QueryTools
    /\ last.ret = "Data"
    /\ Loaded
    /\ repoPath # astData.repoPath

\* the units of a call that are not listed in its errorDetails, in the order
\* the call takes them up
Succeeded(rec) ==
    SelectSeq(rec.swift \o (IF rec.clangAvailable THEN rec.objc ELSE <<>>),
              LAMBDA u : \A e \in Range(rec.errorDetails) :
                             e.file # RelativePath(rec.inputPath, u))

\* C11: when init_swift_repo publishes, every unit of the scan has been taken
\* up: the files of the published graph are exactly the units whose AST
\* step did not fail, the failed ones are the entries of errorDetails, and
\* per language processed + errors is the number of units of that language.
C11_UnitFailuresIsolated ==
    \A c \in CallIds :
        calls[c].pc = "save" =>
            LET rec == calls[c] IN
            /\ [i \in DOMAIN astData.files |-> astData.files[i].path] = Succeeded(rec)
            /\ rec.swiftProcessed + rec.swiftErrors = Len(rec.swift)
            /\ rec.objcProcessed + rec.objcErrors = Len(rec.objc)
            /\ rec.swiftProcessed = CountIn(astData.files, LAMBDA fd : fd.language = "swift")
            /\ rec.objcProcessed = CountIn(astData.files, LAMBDA fd : fd.language = "objc")
            /\ rec.swiftErrors = CountIn(rec.errorDetails, LAMBDA e : e.language = "swift")
            /\ rec.clangAvailable =>
                   rec.objcErrors = CountIn(rec.errorDetails, LAMBDA e : e.language = "objc")

\* the first Swift unit failed, the second Swift unit and the Objective-C
\* unit after it were still processed and are the files of the graph
C11_Witness ==
    \E c \in CallIds :
        /\ calls[c].pc = "save"
        /\ Len(calls[c].swift) = 2
        /\ calls[c].swiftErrors = 1
        /\ calls[c].errorDetails = << ErrorDetail(<<"s1.swift">>, "swift") >>
        /\ Len(astData.files) = 2
        /\ astData.files[1].path = calls[c].swift[2]
        /\ astData.files[2].language = "objc"

Explained == last.op = "explain_symbol" /\ last.ret = "Data"

\* the k-th smallest element of a set of positions
Nth(S, k) == CHOOSE i \in S : Cardinality({j \in S : j <= i}) = k

\* a Swift unit holding exactly the given nodes
IsUnit(fd, name, nodes) ==
    /\ fd.path = PathJoin(astData.repoPath, <<name>>)
    /\ fd.symbols = extractSymbols(nodes, fd.path)

\* C13: inheritedBy of the explained name has one {name: fromSymbol,
\* file: from} entry per edge whose toSymbol is the name, in the order of
\* the edges; with one unit declaring Bar and a second unit declaring
\* Foo: Bar it is [{name: Foo, file: second unit}].
C13_InheritedByFollowsEdges ==
    Explained =>
        LET edges == astData.edges
            into == {i \in DOMAIN edges : edges[i].toSymbol = last.out.symbolName}
            inheritedBy == last.out.inheritedBy
        IN  /\ Len(inheritedBy) = Cardinality(into)
            /\ \A k \in DOMAIN inheritedBy :
                   inheritedBy[k] = [name |-> edges[Nth(into, k)].fromSymbol,
                                     file |-> edges[Nth(into, k)].from]
            /\ ( /\ last.out.symbolName = "Bar"
                 /\ Len(astData.files) = 2
                 /\ IsUnit(astData.files[1], "s1.swift",
                           << Node("source.lang.swift.decl.protocol", "Bar", <<>>, NoString) >>)
                 /\ IsUnit(astData.files[2], "s2.swift",
                           << Node("source.lang.swift.decl.class", "Foo",
                                   <<"Bar", "NSObject">>, NoString) >>) )
                => inheritedBy = << [name |-> "Foo", file |-> <<"s2.swift">>] >>

\* Bar was explained in a graph of two units, the first declaring Bar and
\* the second a class inheriting it
C13_Witness ==
    /\ Explained
    /\ last.out.symbolName = "Bar"
    /\ Len(astData.files) = 2
    /\ astData.files[1].symbols.protocols # <<>>
    /\ astData.files[1].symbols.classes = <<>>
    /\ last.out.inheritedBy = << [name |-> "Foo", file |-> <<"s2.swift">>] >>

\* C14: when Foo is explained, resolved to a class of unit A, and another
\* unit B holds an extension or category whose extended type is Foo and
\* which adopts Bar, extendedIn contains {file: B, conformances: [Bar]}.
C14_ExtensionOrCategoryListed ==
    (Explained /\ last.out.symbolName = "Foo" /\ last.out.symbol.symbolKind = "class") =>
        \A b \in DOMAIN astData.files :
            ( /\ RelOf(astData.files[b]) # last.out.symbol.file
              /\ \E x \in Range(astData.files[b].symbols.extensions) :
                     x.extendedType = "Foo" /\ x.inheritedTypes = <<"Bar">> )
            => [file |-> RelOf(astData.files[b]), conformances |-> <<"Bar">>]
                   \in Range(last.out.extendedIn)

\* does unit fd hold a symbol, in any bucket, typed as name or inheriting name
Mentions(fd, name) ==
    \E b \in AllBuckets : \E x \in Range(fd.symbols[b]) :
        x.typeName = name \/ \E k \in DOMAIN x.inheritedTypes : x.inheritedTypes[k] = name

\* does byName list unit fd under name
IndexedIn(fd, name) ==
    /\ name \in DOMAIN astData.indexes.byName
    /\ \E p \in DOMAIN astData.indexes.byName[name] :
           astData.indexes.byName[name][p].file = RelOf(fd)

\* C15: for a unit U other than the defining unit of the explained symbol,
\* referencedIn contains U if and only if byName lists U under the name or
\* some symbol of U, in any bucket, has the name as typeName or among its
\* inheritedTypes.
C15_ReferencedInIff ==
    Explained =>
        \A u \in DOMAIN astData.files :
            RelOf(astData.files[u]) # last.out.symbol.file =>
                ( RelOf(astData.files[u]) \in Range(last.out.referencedIn)
                  <=> ( IndexedIn(astData.files[u], last.out.symbolName)
                        \/ Mentions(astData.files[u], last.out.symbolName) ) )

\* Foo was explained; the other unit neither declares nor inherits Foo but
\* has a variable of type Foo, and is listed
C15_Witness ==
    /\ Explained
    /\ last.out.symbolName = "Foo"
    /\ Len(astData.files) = 2
    /\ last.out.symbol.file = RelOf(astData.files[1])
    /\ ~IndexedIn(astData.files[2], "Foo")
    /\ \E x \in Range(astData.files[2].symbols.variables) : x.typeName = "Foo"
    /\ last.out.referencedIn = << RelOf(astData.files[2]) >>

\* C16: whenever explain_symbol answers with usages, referencedIn lists no
\* unit twice and does not list the unit that holds the resolved symbol
\* (a unit is listed by the relative path the handler computes for it).
C16_ReferencedInExcludesDefiningUnit ==
    Explained =>
        /\ \A p, q \in DOMAIN last.out.referencedIn :
               p # q => last.out.referencedIn[p] # last.out.referencedIn[q]
        /\ \A u \in DOMAIN astData.files :
               astData.files[u].path = last.out.symbol.symbol.file
                   => RelativePath(repoPath, astData.files[u].path)
                          \notin Range(last.out.referencedIn)

\* search_symbols has just computed its results on a held graph
Searched == last.op = "search_symbols" /\ last.out.kind = "results"

\* name contains query, letter case ignored
ContainsNoCase(name, query) ==
    \E off \in 0..(Len(Chars(name)) - Len(query)) :
        \A k \in 1..Len(query) : ToLower(Chars(name)[off + k]) = ToLower(query[k])

\* the (unit, kind, position) triples of the symbols a search is to report
Wanted(files, query, type) ==
    {w \in UNION {UNION {{<<u, k, j>> : j \in DOMAIN files[u].symbols[kindToPlural(k)]}
                          : k \in IndexedKinds} : u \in DOMAIN files} :
        /\ type = "all" \/ type = w[2]
        /\ ContainsNoCase(files[w[1]].symbols[kindToPlural(w[2])][w[3]].name, query)}

\* the result entry of such a triple
ResultOf(files, w) ==
    LET x == files[w[1]].symbols[kindToPlural(w[2])][w[3]]
    IN  [name |-> x.name, kind |-> w[2], file |-> RelOf(files[w[1]]),
         inherited |-> x.inheritedTypes]

OffsetOf(files, w) == files[w[1]].symbols[kindToPlural(w[2])][w[3]].offset

\* w comes before v in unit-then-declaration order
Before(files, w, v) ==
    w[1] < v[1] \/ (w[1] = v[1] /\ OffsetOf(files, w) < OffsetOf(files, v))

\* C18: the results of a search are the matching symbols ordered by unit
\* and, within a unit, by their position in the source.
C18_SearchInDeclarationOrder ==
    Searched =>
        LET files == astData.files
            wanted == Wanted(files, last.out.query, last.out.type)
            at(p) == CHOOSE w \in wanted :
                         Cardinality({v \in wanted : Before(files, v, w)}) = p - 1
        IN  last.out.results = [p \in 1..Cardinality(wanted) |-> ResultOf(files, at(p))]

\* explain_symbol has just resolved (or failed to resolve) a name on a held
\* graph
Resolved == last.op = "explain_symbol" /\ last.out.kind # "none"

\* the name is a key of byName or of typeMap
Present(name) ==
    name \in DOMAIN astData.indexes.byName \/ name \in DOMAIN astData.typeMap

IndexPathMisses(name) ==
    LET byName == astData.indexes.byName IN
    \/ name \notin DOMAIN byName
    \/ byName[name] = <<>>
    \/ \A u \in DOMAIN astData.files :
           astData.files[u].path = PathJoin(repoPath, byName[name][1].file)
               => \A x \in Range(astData.files[u].symbols[kindToPlural(byName[name][1].kind)]) :
                      x.name # name

C21_FailedInitKeepsGraph ==
    (last.op = "init_swift_repo" /\ last.ret = "error") => astData = NullData

\* the relative paths a graph records: in typeMap, edges, byName and byFile
RecordedPaths(data) ==
    {data.typeMap[n].file : n \in DOMAIN data.typeMap}
        \cup {data.edges[i].from : i \in DOMAIN data.edges}
        \cup {data.edges[i].to : i \in DOMAIN data.edges}
        \cup UNION {{data.indexes.byName[n][p].file : p \in DOMAIN data.indexes.byName[n]}
                       : n \in DOMAIN data.indexes.byName}
        \cup DOMAIN data.indexes.byFile

\* C22: the graph a call publishes has the repoPath the call was given, and
\* every path recorded in its typeMap, edges and indexes is the path of one
\* of its units relative to that directory.
C22_PublishedUnderOwnPath ==
    [][\A c \in CallIds :
          (calls[c].pc # "save" /\ calls'[c].pc = "save")
              => /\ astData'.repoPath = calls'[c].inputPath
                 /\ RecordedPaths(astData')
                        \subseteq {StripPrefix(calls'[c].inputPath, fd.path) :
                                      fd \in Range(astData'.files)}]_vars

\* the graph held was built under its own repoPath: every unit lies in that
\* directory and every recorded path is a unit's path relative to it
BuiltUnderOwnPath ==
    /\ astData.has = TopLevelKeys
    /\ astData.repoPath \in RepoPaths
    /\ \A fd \in Range(astData.files) : IsPrefix(astData.repoPath, fd.path)
    /\ RecordedPaths(astData)
           \subseteq {StripPrefix(astData.repoPath, fd.path) : fd \in Range(astData.files)}

\* C23: with a graph loaded and no call in progress, every name that is a
\* key of byName resolves to a symbol, names of functions included.
C23_IndexedNamesResolve ==
    (Loaded /\ NoCallInProgress /\ BuiltUnderOwnPath)
        => \A n \in DOMAIN astData.indexes.byName :
              findSymbol(astData, repoPath, n).status = "found"

\* the symbols named name that the unit of the first location of the name,
\* looked up under the module's repoPath, holds in the bucket of that
\* location's kind, in the order of the bucket
FirstLocationSymbols(name) ==
    LET first == astData.indexes.byName[name][1]
        units == {u \in DOMAIN astData.files :
                     astData.files[u].path = PathJoin(repoPath, first.file)}
    IN  IF units = {} THEN <<>>
        ELSE LET list == astData.files[CHOOSE u \in units : TRUE]
                             .symbols[kindToPlural(first.kind)]
             IN  SelectSeq(list, LAMBDA x : x.name = name)

\* C24: a resolution of a name with a non-empty byName entry returns the
\* first symbol of that exact name in the unit and bucket of the entry's
\* first location, reported with that location's file and kind, also when
\* typeMap records another unit for the name; the typeMap entry is returned
\* only when the index path yields no symbol.
C24_ResolveFromFirstLocation ==
    Resolved =>
        LET name == last.out.symbolName
            byName == astData.indexes.byName
            typeMap == astData.typeMap
            got == last.out.symbol
        IN  (name \in DOMAIN byName /\ byName[name] # <<>> /\ got.status # "throw")
                => /\ ~IndexPathMisses(name)
                       => /\ got.status = "found"
                          /\ got.symbol = FirstLocationSymbols(name)[1]
                          /\ got.file = byName[name][1].file
                          /\ got.symbolKind = byName[name][1].kind
                   /\ (got.status = "found" /\ IndexPathMisses(name))
                       => /\ name \in DOMAIN typeMap
                          /\ got.symbol = typeMap[name].symbol
                          /\ got.file = typeMap[name].file
                          /\ got.symbolKind = typeMap[name].kind

\* Foo, declared by two units, was resolved to the symbol of the unit of
\* its first location while typeMap records the second unit
C24_Witness ==
    /\ Resolved
    /\ last.out.symbolName = "Foo"
    /\ last.out.symbol.status = "found"
    /\ Len(astData.indexes.byName["Foo"]) = 2
    /\ ~IndexPathMisses("Foo")
    /\ astData.typeMap["Foo"].file # astData.indexes.byName["Foo"][1].file
    /\ last.out.symbol.file = astData.indexes.byName["Foo"][1].file
    /\ last.out.symbol.symbol # astData.typeMap["Foo"].symbol

\* a build that scanned one Swift (one Objective-C) unit has extracted it
\* and published the graph
ExtractedSwift == calls[1].pc = "save" /\ calls[1].swiftProcessed = 1

ExtractedObjc == calls[1].pc = "save" /\ calls[1].objcProcessed = 1

\* the substrings the classification tests, in the order of the claim, and
\* the bucket of each
TestedSubstrings ==
    << {"class"}, {"struct"}, {"protocol"}, {"enum"}, {"extension"},
       {"function", "method"}, {"var"} >>

BucketNames ==
    << "classes", "structs", "protocols", "enums", "extensions", "functions", "variables" >>

\* the positions, in test order, of the substrings a kind tag holds
Matches(kind) ==
    {k \in DOMAIN TestedSubstrings : KindSubstrings[kind] \cap TestedSubstrings[k] # {}}

\* the nodes of a unit that belong in the k-th bucket: they have a kind and a
\* name, and k is the first position their kind matches
BelongIn(ast, k) ==
    {i \in DOMAIN ast :
        /\ ast[i].kind # NoString
        /\ ast[i].name # NoString
        /\ k \in Matches(ast[i].kind)
        /\ \A j \in Matches(ast[i].kind) : k <= j}

\* C26: each bucket of a Shape-A unit holds, in pre-order, exactly the nodes
\* that have a kind and a name and whose kind matches the bucket's substring
\* before any other in the order class, struct, protocol, enum, extension,
\* function/method, variable; so a node is in at most one bucket, a kind with
\* several substrings goes to the earliest, and a node without a name is in
\* none.
C26_FirstMatchClassifies ==
    ExtractedSwift =>
        LET ast == calls[1].ast
            table == calls[1].files[1].symbols
        IN  \A k \in DOMAIN BucketNames :
                LET got == table[BucketNames[k]]
                    want == BelongIn(ast, k)
                IN  /\ Len(got) = Cardinality(want)
                    /\ \A p \in DOMAIN got :
                          /\ got[p].offset = Nth(want, p)
                          /\ got[p].name = ast[Nth(want, p)].name
                          /\ got[p].kind = ast[Nth(want, p)].kind

\* a unit with a node whose kind holds class, function and method, a node
\* with a kind and no name, and a named node whose kind holds no tested
\* substring was extracted: the first is in classes only
C26_Witness ==
    /\ ExtractedSwift
    /\ LET ast == calls[1].ast
           table == calls[1].files[1].symbols
       IN  /\ \E i \in DOMAIN ast :
                 /\ ast[i].kind # NoString
                 /\ ast[i].name # NoString
                 /\ Cardinality(Matches(ast[i].kind)) > 1
                 /\ \E p \in DOMAIN table.classes : table.classes[p].offset = i
                 /\ table.functions = <<>>
           /\ \E i \in DOMAIN ast : ast[i].kind # NoString /\ ast[i].name = NoString
           /\ \E i \in DOMAIN ast :
                 ast[i].kind # NoString /\ ast[i].name # NoString /\ Matches(ast[i].kind) = {}

\* the parent of node j of a unit (0: the root): the last node before j that
\* is less deep
Parent(ast, j) ==
    LET up == {i \in 1..(j - 1) : ast[i].depth < ast[j].depth}
    IN  IF up = {} THEN 0 ELSE CHOOSE i \in up : \A k \in up : k <= i

\* the elements of a set of positions, in order, each mapped by F
InOrder(S, F(_)) == [p \in 1..Cardinality(S) |-> F(Nth(S, p))]

IsMethodKind(kind) ==
    kind # NoString /\ KindSubstrings[kind] \cap {"function", "method"} # {}

IsVarKind(kind) ==
    kind # NoString /\ ~IsMethodKind(kind) /\ "var" \in KindSubstrings[kind]

\* the first node in pre-order that has a kind and the given name
FirstNamed(ast, name) ==
    LET hits == {i \in DOMAIN ast : ast[i].kind # NoString /\ ast[i].name = name}
    IN  CHOOSE i \in hits : \A j \in hits : i <= j

\* C27: memberData of a Shape-A unit has one entry per name of a class,
\* struct, protocol or enum symbol, and the entry lists, in order, the direct
\* children of the first node in pre-order that has a kind and that name:
\* the var-kind ones as properties, the function/method-kind ones as
\* initializers or methods; no deeper descendant and no child of a later
\* node of the name is listed.
C27_MembersOfFirstNamedNode ==
    ExtractedSwift =>
        LET ast == calls[1].ast
            table == calls[1].files[1].symbols
            memberData == calls[1].files[1].memberData
            types == Range(table.classes) \cup Range(table.structs)
                        \cup Range(table.protocols) \cup Range(table.enums)
            nameOf(j) == IF ast[j].name = NoString THEN "" ELSE ast[j].name
            property(j) == [name |-> nameOf(j), type |-> ast[j].typeName]
            method(j) == [name |-> nameOf(j), returnType |-> ast[j].typeName]
            initializer(j) == [name |-> nameOf(j)]
        IN  /\ DOMAIN memberData = {x.name : x \in types}
            /\ \A x \in types :
                  LET kids == {j \in DOMAIN ast : Parent(ast, j) = FirstNamed(ast, x.name)}
                      isInit(j) == StartsWith(nameOf(j), "init")
                  IN  /\ memberData[x.name].properties =
                             InOrder({j \in kids : IsVarKind(ast[j].kind)}, property)
                      /\ memberData[x.name].methods =
                             InOrder({j \in kids : IsMethodKind(ast[j].kind) /\ ~isInit(j)},
                                     method)
                      /\ memberData[x.name].initializers =
                             InOrder({j \in kids : IsMethodKind(ast[j].kind) /\ isInit(j)},
                                     initializer)

\* a class was extracted whose own node has a method child but is not the
\* first node of its name: the first one has that class as its only child, so
\* the entry of the name lists nothing, the grandchild included
C27_Witness ==
    /\ ExtractedSwift
    /\ LET ast == calls[1].ast
           table == calls[1].files[1].symbols
           memberData == calls[1].files[1].memberData
       IN  \E p \in DOMAIN table.classes :
               LET x == table.classes[p]
                   first == FirstNamed(ast, x.name)
               IN  /\ first # x.offset
                   /\ Parent(ast, x.offset) = first
                   /\ \E j \in DOMAIN ast :
                         Parent(ast, j) = x.offset /\ IsMethodKind(ast[j].kind)
                   /\ memberData[x.name] = EmptyMembers

\* the name begins with the init marker of the unit's dialect: init in
\* Swift; init alone or initWith... in Objective-C
HasInitMarker(language, name) ==
    IF language = "swift" THEN StartsWith(name, "init")
    ELSE name = "init" \/ StartsWith(name, "initWith")

\* C28: in every member table of an extracted unit, of either dialect, no
\* entry of methods has a name with the init marker and every entry of
\* initializers has one.
C28_InitMarkerSplitsMethods ==
    (ExtractedSwift \/ ExtractedObjc) =>
        LET fd == calls[1].files[1] IN
        \A n \in DOMAIN fd.memberData :
            /\ \A m \in Range(fd.memberData[n].methods) : ~HasInitMarker(fd.language, m.name)
            /\ \A m \in Range(fd.memberData[n].initializers) : HasInitMarker(fd.language, m.name)

\* the composite names the categories of a unit may give
CategoryNames(ast, nodes) ==
    {CategoryName(ast[i].interface, ast[i].name) :
        i \in {j \in nodes : /\ ast[j].kind = "ObjCCategoryDecl"
                             /\ ast[j].interface # NoString
                             /\ ast[j].name # NoString}}

\* C29: every symbol in the classes, protocols or extensions bucket of a
\* Shape-B unit comes from a node that is not flagged implicit, and every
\* name in typeMap, in an edge's fromSymbol or in byName is the name of a
\* declaration that is not implicit.
C29_ImplicitNeverRecorded ==
    ExtractedObjc =>
        LET ast == calls[1].ast
            table == calls[1].files[1].symbols
            written == {i \in DOMAIN ast : ~ast[i].isImplicit}
            names == {ast[i].name : i \in {j \in written :
                         ast[j].kind \in {"ObjCInterfaceDecl", "ObjCProtocolDecl"}}}
                        \cup CategoryNames(ast, written)
        IN  /\ \A b \in {"classes", "protocols", "extensions"} :
                  \A x \in Range(table[b]) : x.offset \in written
            /\ DOMAIN astData.typeMap \subseteq names
            /\ \A e \in Range(astData.edges) : e.fromSymbol \in names
            /\ DOMAIN astData.indexes.byName \subseteq names
            /\ \A f \in DOMAIN astData.indexes.byFile :
                  Range(astData.indexes.byFile[f]) \subseteq names

\* a unit with an implicit interface Foo, a written protocol Bar and an
\* implicit category was extracted: Bar is recorded, Foo and the category
\* are not
C29_Witness ==
    /\ ExtractedObjc
    /\ LET ast == calls[1].ast
           table == calls[1].files[1].symbols
       IN  /\ \E i \in DOMAIN ast :
                 ast[i].kind = "ObjCInterfaceDecl" /\ ast[i].isImplicit /\ ast[i].name = "Foo"
           /\ \E i \in DOMAIN ast :
                 /\ ast[i].kind = "ObjCCategoryDecl"
                 /\ ast[i].isImplicit
                 /\ ast[i].interface # NoString
           /\ table.classes = <<>>
           /\ table.extensions = <<>>
           /\ DOMAIN astData.typeMap = {"Bar"}

\* the category nodes of a Shape-B unit
Categories(ast) == {i \in DOMAIN ast : ast[i].kind = "ObjCCategoryDecl"}

\* the symbols, in any bucket of the table, that node i gave
SymbolsFrom(table, i) ==
    UNION {{<<b, p>> : p \in {q \in DOMAIN table[b] : table[b][q].offset = i}}
              : b \in AllBuckets}

\* node j is above node i in the tree
Above(ast, j, i) ==
    /\ j < i
    /\ \A k \in (j + 1)..i : ast[k].depth > ast[j].depth

\* a written category with a name and no interface name: the walk returns
\* at it
Malformed(ast, j) ==
    /\ ast[j].kind = "ObjCCategoryDecl"
    /\ ast[j].name \notin {NoString, ""}
    /\ ~ast[j].isImplicit
    /\ ast[j].interface = NoString

DeclaredTypes(files) == UNION {NamesIn(files[u], TypeBuckets) : u \in DOMAIN files}

\* the extension symbols, as (unit, position), whose target no unit declares
Orphans(files) ==
    UNION {{<<u, p>> : p \in {q \in DOMAIN files[u].symbols.extensions :
                                files[u].symbols.extensions[q].extendedType
                                    \notin DeclaredTypes(files)}}
              : u \in DOMAIN files}

\* the extension and category nodes of the unit a call parsed last are the
\* entries of the extensions bucket of that unit, each with its target
ExtensionsRecorded ==
    \A c \in SessionCalls :
        (calls[c].pc = "save" /\ calls[c].files # <<>>) =>
            LET ast == calls[c].ast
                fd == calls[c].files[Len(calls[c].files)]
                got == fd.symbols.extensions
                nodes == IF fd.language = "swift"
                         THEN {i \in DOMAIN ast :
                                  ast[i].kind = "source.lang.swift.decl.extension"}
                         ELSE {i \in DOMAIN ast :
                                  /\ ast[i].kind = "ObjCCategoryDecl"
                                  /\ ~ast[i].isImplicit
                                  /\ ast[i].interface # NoString}
            IN  /\ Len(got) = Cardinality(nodes)
                /\ \A p \in DOMAIN got :
                      /\ got[p].offset = Nth(nodes, p)
                      /\ got[p].extendedType =
                             IF fd.language = "swift" THEN ast[Nth(nodes, p)].name
                             ELSE ast[Nth(nodes, p)].interface

====
